---- MODULE Spec2Model ----
(***************************************************************************)
(* arxiv_alert (src/arxiv_alert_cron_edited.py): the fetch / filter /      *)
(* dedup / render pipeline of one run, and sequences of runs sharing the   *)
(* persisted processed-papers file.                                        *)
(*                                                                         *)
(* Python strings are sequences of one-character strings, so that lower(), *)
(* strip('"'), split('v'), split('/abs/') and the `in` substring test are  *)
(* computed character by character.                                        *)
(***************************************************************************)
EXTENDS Integers, Sequences, FiniteSets, TLC

VARIABLES
    persisted,              \* processed_papers.json on disk
    pc,                     \* position of the job: "idle", "fetch", "process"
    criteria,               \* the arguments of the running arxiv_alert call
    processed_papers,       \* the set loaded at run start (line 265)
    new_processed_papers,   \* line 266
    batch_idx,              \* index (1-based) of the keyword batch being paged
    start,                  \* offset of the next page request
    all_entries,            \* line 305
    all_entry_ids,          \* line 306
    reqs,                   \* history: the page requests issued in this run
    upstream,               \* history: the responses received in this run
    idx,                    \* position of the processing loop in all_entries
    new_papers_count,
    filtered_papers_count,
    no_keywords_count,
    already_processed_count,
    shown_papers_count,
    body,                   \* the per-entry blocks rendered so far
    digest,                 \* what the finished run returned
    saved,                  \* history: the run called save_processed_papers
    prev,                   \* history: criteria and responses of the last finished run
    replay,                 \* the current run receives the responses of prev
    ever_persisted,         \* history: the identifiers the runs so far have saved
    arg,                    \* input of the pure function under check
    out,                    \* its result
    jobs                    \* the runs of two jobs started at the same time

runVars == <<criteria, processed_papers, new_processed_papers, batch_idx, start,
             all_entries, all_entry_ids, reqs, upstream, idx>>
countVars == <<new_papers_count, filtered_papers_count, no_keywords_count,
               already_processed_count, shown_papers_count, body>>
jobVars == <<persisted, pc, runVars, countVars, digest, saved, prev, replay,
             ever_persisted>>
vars == <<jobVars, arg, out, jobs>>

\* An optional list argument: None, or a list
None == [given |-> FALSE, list |-> <<>>]
Some(l) == [given |-> TRUE, list |-> l]

(***************************************************************************)
(* Strings                                                                 *)
(***************************************************************************)
UpperToLower ==
    ("A" :> "a") @@ ("B" :> "b") @@ ("C" :> "c") @@ ("J" :> "j") @@
    ("R" :> "r") @@ ("S" :> "s") @@ ("V" :> "v") @@ ("W" :> "w")

\* str.lower(), on the alphabet of the model
lower(s) ==
    [i \in DOMAIN s |-> IF s[i] \in DOMAIN UpperToLower THEN UpperToLower[s[i]] ELSE s[i]]

\* Python's `sub in s` on strings
Contains(s, sub) ==
    \E i \in 0..(Len(s) - Len(sub)) : SubSeq(s, i + 1, i + Len(sub)) = sub

\* the index of the first occurrence of sub in s at or after position from, 0 if none
RECURSIVE FindFrom(_, _, _)
FindFrom(s, sub, from) ==
    IF from + Len(sub) - 1 > Len(s) THEN 0
    ELSE IF SubSeq(s, from, from + Len(sub) - 1) = sub THEN from
    ELSE FindFrom(s, sub, from + 1)

\* s.split(sep)[0]
SplitFirst(s, sep) ==
    LET i == FindFrom(s, sep, 1)
    IN  IF i = 0 THEN s ELSE SubSeq(s, 1, i - 1)

\* s.split(sep)[-1]
RECURSIVE SplitLast(_, _)
SplitLast(s, sep) ==
    LET i == FindFrom(s, sep, 1)
    IN  IF i = 0 THEN s ELSE SplitLast(SubSeq(s, i + Len(sep), Len(s)), sep)

Quote == "\""

\* s.strip('"')
RECURSIVE StripQuotes(_)
StripQuotes(s) ==
    IF s = <<>> THEN s
    ELSE IF s[1] = Quote THEN StripQuotes(Tail(s))
    ELSE IF s[Len(s)] = Quote THEN StripQuotes(SubSeq(s, 1, Len(s) - 1))
    ELSE s

\* Python truthiness of an optional list argument: None and [] are false
Truthy(l) == l.given /\ l.list # <<>>

Range(f) == {f[i] : i \in DOMAIN f}

(***************************************************************************)
(* Program constants                                                       *)
(***************************************************************************)
max_results_per_call == 200
api_limit == 2000
batch_size == 15
prune_threshold == 1000
prune_keep == 500

Min(a, b) == IF a < b THEN a ELSE b

(***************************************************************************)
(* Pure functions of the script                                            *)
(***************************************************************************)
\* clean_keyword without lower(): the keyword is searched for as it is spelt
clean_keyword_as_spelt(keyword) == StripQuotes(keyword)

\* line 91: the keyword as it is searched for
clean_keyword(keyword) == lower(StripQuotes(keyword))

\* lines 95-99: where a cleaned keyword occurs
found_in(clean, title_lower, abstract_lower) ==
    (IF Contains(title_lower, clean) THEN <<"title">> ELSE <<>>) \o
    (IF Contains(abstract_lower, clean) THEN <<"abstract">> ELSE <<>>)

\* line 93: the keyword is reported
keyword_matches(clean, title_lower, abstract_lower) ==
    Contains(title_lower, clean) \/ Contains(abstract_lower, clean)

\* find_matching_keywords: the match f"{keyword} ({', '.join(found_in)})" is
\* kept as the pair of its two parts
RECURSIVE find_matching_keywords(_, _, _)
find_matching_keywords(title, abstract, keywords) ==
    IF keywords = <<>> THEN <<>>
    ELSE LET keyword == Head(keywords)
             clean == clean_keyword(keyword)
             rest == find_matching_keywords(title, abstract, Tail(keywords))
         IN  IF keyword_matches(clean, lower(title), lower(abstract))
             THEN <<[keyword |-> keyword,
                     found_in |-> found_in(clean, lower(title), lower(abstract))]>> \o rest
             ELSE rest

\* line 472
arxiv_id_of(entry) == SplitLast(entry.id, <<"/", "a", "b", "s", "/">>)

\* line 473
base_arxiv_id(arxiv_id) ==
    IF Contains(arxiv_id, <<"v">>) THEN SplitFirst(arxiv_id, <<"v">>) ELSE arxiv_id

\* has_required_category comparing the categories as they are spelt
has_required_category_as_spelt(categories, all_categories) ==
    \E i \in DOMAIN all_categories : all_categories[i] \in Range(categories)

\* lines 508, 512-513
has_required_category(categories, all_categories) ==
    LET all_categories_lower == [i \in DOMAIN all_categories |-> lower(all_categories[i])]
        required_categories_lower == [i \in DOMAIN categories |-> lower(categories[i])]
    IN  \E i \in DOMAIN all_categories_lower :
            all_categories_lower[i] \in Range(required_categories_lower)

\* has_excluded_category comparing the categories as they are spelt
has_excluded_category_as_spelt(excluded_categories, all_categories) ==
    \E i \in DOMAIN all_categories : all_categories[i] \in Range(excluded_categories)

\* lines 508, 521-522
has_excluded_category(excluded_categories, all_categories) ==
    LET all_categories_lower == [i \in DOMAIN all_categories |-> lower(all_categories[i])]
        excluded_categories_lower ==
            [i \in DOMAIN excluded_categories |-> lower(excluded_categories[i])]
    IN  \E i \in DOMAIN all_categories_lower :
            all_categories_lower[i] \in Range(excluded_categories_lower)

\* lines 511-514: the entry is rejected by the required-category check
fails_required(c, entry) ==
    Truthy(c.categories) /\ ~has_required_category(c.categories.list, entry.tags)

\* lines 520-523: the entry is rejected by the excluded-category check
fails_excluded(c, entry) ==
    Truthy(c.excluded_categories)
    /\ has_excluded_category(c.excluded_categories.list, entry.tags)

\* lines 531-533: the entry is rejected by the keyword check
fails_keywords(c, entry) ==
    c.keywords.given
    /\ find_matching_keywords(entry.title, entry.summary, c.keywords.list) = <<>>

\* filter_chain with the keyword check moved in front of the category checks
filter_chain_keywords_first(c, entry) ==
    IF fails_keywords(c, entry) THEN "keyword"
    ELSE IF fails_required(c, entry) THEN "required"
    ELSE IF fails_excluded(c, entry) THEN "excluded"
    ELSE "accepted"

\* lines 510-536: the filter chain; the check that rejects the entry, or "accepted"
filter_chain(c, entry) ==
    IF fails_required(c, entry) THEN "required"
    ELSE IF fails_excluded(c, entry) THEN "excluded"
    ELSE IF fails_keywords(c, entry) THEN "keyword"
    ELSE "accepted"

\* lines 270-271
clamp_days(amount_of_days) == IF amount_of_days < 1 THEN 1 ELSE amount_of_days

\* line 289
max_total_results(amount_of_days) ==
    Min(api_limit, max_results_per_call * clamp_days(amount_of_days))

\* keyword_batches making full batches only: the keywords after the last full
\* batch are left out
keyword_batches_full_only(keywords) ==
    IF Truthy(keywords) /\ Len(keywords.list) > batch_size
    THEN [b \in 1..(Len(keywords.list) \div batch_size) |->
              Some(SubSeq(keywords.list, (b - 1) * batch_size + 1, b * batch_size))]
    ELSE IF Truthy(keywords) THEN <<keywords>>
    ELSE <<None>>

\* lines 293-302
keyword_batches(keywords) ==
    IF Truthy(keywords) /\ Len(keywords.list) > batch_size
    THEN [b \in 1..((Len(keywords.list) + batch_size - 1) \div batch_size) |->
              Some(SubSeq(keywords.list, (b - 1) * batch_size + 1,
                          Min(b * batch_size, Len(keywords.list))))]
    ELSE IF Truthy(keywords) THEN <<keywords>>
    ELSE <<None>>

(***************************************************************************)
(* Dates                                                                   *)
(***************************************************************************)
\* a datetime.date, or None
NoDate == [given |-> FALSE, y |-> 0, m |-> 0, d |-> 0]
Date(y, m, d) == [given |-> TRUE, y |-> y, m |-> m, d |-> d]

\* a value that may be a string: None (or an attribute that is not there), a
\* str, or a bytes object
NotAString == [kind |-> "none", s |-> <<>>]
Str(s) == [kind |-> "str", s |-> s]
Bytes(s) == [kind |-> "bytes", s |-> s]

DigitValue ==
    ("0" :> 0) @@ ("1" :> 1) @@ ("2" :> 2) @@ ("3" :> 3) @@ ("4" :> 4) @@
    ("5" :> 5) @@ ("6" :> 6) @@ ("7" :> 7) @@ ("8" :> 8) @@ ("9" :> 9)

IsDigits(s) == \A i \in DOMAIN s : s[i] \in DOMAIN DigitValue

\* int(s) for a string of digits
RECURSIVE int(_)
int(s) ==
    IF s = <<>> THEN 0
    ELSE 10 * int(SubSeq(s, 1, Len(s) - 1)) + DigitValue[s[Len(s)]]

\* s.split(sep)
RECURSIVE Split(_, _)
Split(s, sep) ==
    LET i == FindFrom(s, sep, 1)
    IN  IF i = 0 THEN <<s>>
        ELSE <<SubSeq(s, 1, i - 1)>> \o Split(SubSeq(s, i + Len(sep), Len(s)), sep)

\* the calendar of datetime.date
is_leap(y) == y % 4 = 0 /\ (y % 100 # 0 \/ y % 400 = 0)
days_in_month(y, m) ==
    IF m = 2 THEN (IF is_leap(y) THEN 29 ELSE 28)
    ELSE IF m \in {4, 6, 9, 11} THEN 30
    ELSE 31

\* the directives of strptime: %Y is \d\d\d\d, %m is 1[0-2]|0[1-9]|[1-9] and
\* %d is 3[0-1]|[1-2]\d|0[1-9]|[1-9]| [1-9]
matches_Y(s) == Len(s) = 4 /\ IsDigits(s)
matches_m(s) == Len(s) \in {1, 2} /\ IsDigits(s) /\ int(s) \in 1..12
matches_d(s) ==
    \/ Len(s) \in {1, 2} /\ IsDigits(s) /\ int(s) \in 1..31
    \/ Len(s) = 2 /\ s[1] = " " /\ IsDigits(Tail(s)) /\ int(Tail(s)) \in 1..9

\* datetime.strptime(s, '%Y-%m-%d').date(), None standing for its ValueError:
\* the whole of s has to match, the year is at least 1 (datetime.MINYEAR) and
\* the day is one of the month
strptime_date(s) ==
    LET parts == Split(s, <<"-">>)
    IN  IF Len(parts) = 3 /\ matches_Y(parts[1]) /\ matches_m(parts[2])
           /\ matches_d(parts[3])
        THEN LET y == int(parts[1])
                 m == int(parts[2])
                 d == int(IF parts[3][1] = " " THEN Tail(parts[3]) ELSE parts[3])
             IN  IF y >= 1 /\ d <= days_in_month(y, m) THEN Date(y, m, d) ELSE NoDate
        ELSE NoDate

\* parse_arxiv_date handing the whole string to strptime
parse_arxiv_date_whole_string(date_str) ==
    IF date_str.kind # "str" THEN NoDate
    ELSE strptime_date(date_str.s)

\* parse_arxiv_date raises: bytes.split('T') raises TypeError, which line 128
\* does not catch
parse_raises(date_str) == date_str.kind = "bytes"

\* parse_arxiv_date: None.split raises AttributeError and strptime raises
\* ValueError, and both give None
parse_arxiv_date(date_str) ==
    IF date_str.kind # "str" THEN NoDate
    ELSE strptime_date(SplitFirst(date_str.s, <<"T">>))

\* a number in two and in four digits, as strftime writes %m, %d and %Y
DigitChars == <<"0", "1", "2", "3", "4", "5", "6", "7", "8", "9">>
Pad2(n) == <<DigitChars[(n \div 10) + 1], DigitChars[(n % 10) + 1]>>
Pad4(n) == Pad2(n \div 100) \o Pad2(n % 100)

\* start <= d for two dates
date_le(a, b) ==
    \/ a.y < b.y
    \/ a.y = b.y /\ a.m < b.m
    \/ a.y = b.y /\ a.m = b.m /\ a.d <= b.d

\* dt - timedelta(days=1)
day_before(dt) ==
    IF dt.d > 1 THEN Date(dt.y, dt.m, dt.d - 1)
    ELSE IF dt.m > 1 THEN Date(dt.y, dt.m - 1, days_in_month(dt.y, dt.m - 1))
    ELSE Date(dt.y - 1, 12, 31)

\* dt - timedelta(days=n)
RECURSIVE minus_days(_, _)
minus_days(dt, n) == IF n <= 0 THEN dt ELSE minus_days(day_before(dt), n - 1)

\* line 273
yesterday(today) == day_before(today)

\* start_window going back amount_of_days days from yesterday
start_window_one_day_more(today, amount_of_days) ==
    minus_days(yesterday(today), clamp_days(amount_of_days))

\* lines 270-279: the first day of the window, and of the window of the query
start_window(today, amount_of_days) ==
    minus_days(yesterday(today), clamp_days(amount_of_days) - 1)
api_start_window(today, amount_of_days) ==
    day_before(start_window(today, amount_of_days))

\* date_fields with the published date looked at first
date_fields_published_first == <<"published", "arxiv_updated", "updated", "arxiv_created">>

\* the date attributes is_date_in_range looks at, in the order of its checks
date_fields == <<"arxiv_updated", "updated", "published", "arxiv_created">>

\* lines 138-180, from the check of the attribute Head(fields) on: the first
\* attribute that is there, is not empty and parses decides; an exception
\* (lines 177-180) and the lack of any such attribute (line 176) give True
RECURSIVE check_date_fields(_, _, _, _)
check_date_fields(entry, fields, start_date, end_date) ==
    IF fields = <<>> THEN TRUE
    ELSE LET value == entry[Head(fields)]
         IN  IF value.kind = "none" \/ value.s = <<>>
             THEN check_date_fields(entry, Tail(fields), start_date, end_date)
             ELSE IF parse_raises(value) THEN TRUE
             ELSE IF parse_arxiv_date(value).given
             THEN /\ date_le(start_date, parse_arxiv_date(value))
                  /\ date_le(parse_arxiv_date(value), end_date)
             ELSE check_date_fields(entry, Tail(fields), start_date, end_date)

is_date_in_range(entry, start_date, end_date) ==
    check_date_fields(entry, date_fields, start_date, end_date)

\* entry_verdict leaving out an entry whose date check failed
entry_verdict_in_range_only(c, entry, date_check) ==
    IF ~date_check THEN "date" ELSE filter_chain(c, entry)

\* lines 496-541: what becomes of an entry whose date check gave date_check:
\* the result is logged (lines 497-502) and the filters decide
entry_verdict(c, entry, date_check) ==
    filter_chain(c, entry)

(***************************************************************************)
(* build_arxiv_query                                                       *)
(***************************************************************************)
\* sep.join(parts)
RECURSIVE Join(_, _)
Join(parts, sep) ==
    IF parts = <<>> THEN <<>>
    ELSE IF Len(parts) = 1 THEN parts[1]
    ELSE parts[1] \o sep \o Join(Tail(parts), sep)

OrSep == <<" ", "O", "R", " ">>
AndSep == <<"+", "A", "N", "D", "+">>
ToSep == <<"+", "T", "O", "+">>
CatPrefix == <<"c", "a", "t", ":">>
TiPrefix == <<"t", "i", ":">>
AbsPrefix == <<"a", "b", "s", ":">>
AuPrefix == <<"a", "u", ":">>
DatePrefix == <<"s", "u", "b", "m", "i", "t", "t", "e", "d", "D", "a", "t", "e", ":", "[">>
DayStart == <<"0", "0", "0", "0">>
DayEnd == <<"2", "3", "5", "9">>

\* date.strftime("%Y%m%d")
strftime_Ymd(dt) == Pad4(dt.y) \o Pad2(dt.m) \o Pad2(dt.d)

\* category_clause without the parentheses around the group
category_clause_bare(categories) ==
    Join([i \in DOMAIN categories |-> CatPrefix \o categories[i]], OrSep)

\* lines 190-192
category_clause(categories) ==
    <<"(">> \o Join([i \in DOMAIN categories |-> CatPrefix \o categories[i]], OrSep)
            \o <<")">>

\* lines 195-200
keyword_clause(keywords) ==
    <<"(">> \o Join([i \in DOMAIN keywords |->
                         <<"(">> \o TiPrefix \o keywords[i] \o OrSep
                                 \o AbsPrefix \o keywords[i] \o <<")">>], OrSep)
            \o <<")">>

\* lines 203-205
author_clause(authors) ==
    <<"(">> \o Join([i \in DOMAIN authors |-> AuPrefix \o authors[i]], OrSep)
            \o <<")">>

\* lines 208-211
date_clause(start_date, end_date) ==
    DatePrefix \o strftime_Ymd(start_date) \o DayStart \o ToSep
               \o strftime_Ymd(end_date) \o DayEnd \o <<"]">>

\* query_parts with the date clause put first
query_parts_date_first(categories, keywords, authors, start_date, end_date) ==
    (IF start_date.given /\ end_date.given
     THEN <<date_clause(start_date, end_date)>> ELSE <<>>)
    \o (IF Truthy(categories) THEN <<category_clause(categories.list)>> ELSE <<>>)
    \o (IF Truthy(keywords) THEN <<keyword_clause(keywords.list)>> ELSE <<>>)
    \o (IF Truthy(authors) THEN <<author_clause(authors.list)>> ELSE <<>>)

\* lines 187-211: the clauses, in the order they are appended
query_parts(categories, keywords, authors, start_date, end_date) ==
    (IF Truthy(categories) THEN <<category_clause(categories.list)>> ELSE <<>>)
    \o (IF Truthy(keywords) THEN <<keyword_clause(keywords.list)>> ELSE <<>>)
    \o (IF Truthy(authors) THEN <<author_clause(authors.list)>> ELSE <<>>)
    \o (IF start_date.given /\ end_date.given
        THEN <<date_clause(start_date, end_date)>> ELSE <<>>)

\* lines 213-219
build_arxiv_query(categories, keywords, authors, start_date, end_date) ==
    LET parts == query_parts(categories, keywords, authors, start_date, end_date)
    IN  IF parts # <<>> THEN Join(parts, AndSep) ELSE <<"*">>

(***************************************************************************)
(* The dedup store: a set of base identifiers.  The identifiers of the     *)
(* papers of the model are kept as a set (ids); the other identifiers the  *)
(* file holds, left by runs over other papers, are only counted (others).  *)
(***************************************************************************)
EmptyStore == [ids |-> {}, others |-> 0]

\* processed_papers.json: missing, not decodable as JSON, or a list of identifiers
MissingFile == [state |-> "missing", ids |-> {}, others |-> 0]
UndecodableFile == [state |-> "undecodable", ids |-> {}, others |-> 0]
\* bytes that are not UTF-8 text (open(..., 'r') raises UnicodeDecodeError), or
\* JSON that is not a list of strings, as 5, null or [["a"]] (set() raises
\* TypeError)
UnreadableFile == [state |-> "unreadable", ids |-> {}, others |-> 0]
ListFile(s) == [state |-> "list", ids |-> s.ids, others |-> s.others]

StoreSize(s) == Cardinality(s.ids) + s.others

\* load_processed_papers raises: line 45 catches FileNotFoundError and
\* json.JSONDecodeError only
load_raises(file) == file.state = "unreadable"

\* load_processed_papers: a missing or undecodable file gives set()
load_processed_papers(file) ==
    IF file.state \in {"missing", "undecodable"}
    THEN EmptyStore
    ELSE [ids |-> file.ids, others |-> file.others]

\* clean_old_processed_papers trimming a set that has reached the threshold
clean_old_processed_papers_at_threshold(s) ==
    IF StoreSize(s) >= prune_threshold
    THEN {[ids |-> k, others |-> prune_keep - Cardinality(k)] :
              k \in {x \in SUBSET s.ids :
                         /\ Cardinality(x) <= prune_keep
                         /\ prune_keep - Cardinality(x) <= s.others}}
    ELSE {s}

\* clean_old_processed_papers: set(list(processed_papers)[-500:]) keeps the last
\* 500 elements in the iteration order of a set of strings, which is arbitrary:
\* every 500-element subset is a possible result
clean_old_processed_papers(s) ==
    IF StoreSize(s) > prune_threshold
    THEN {[ids |-> k, others |-> prune_keep - Cardinality(k)] :
              k \in {x \in SUBSET s.ids :
                         /\ Cardinality(x) <= prune_keep
                         /\ prune_keep - Cardinality(x) <= s.others}}
    ELSE {s}

\* save_processed_papers writing what the file held together with the set
save_processed_papers_merged(file, s) ==
    ListFile([ids |-> file.ids \cup s.ids, others |-> s.others])

\* save_processed_papers: open(processed_file, 'w') discards what the file
\* held, whoever wrote it, and the set is dumped as a list
save_processed_papers(file, s) ==
    ListFile(s)

(***************************************************************************)
(* The remote API and the criteria of the model                            *)
(***************************************************************************)
MaxDays == 2

AbsUrl == <<"h", "/", "a", "b", "s", "/">>

\* get_current_date() on the day of the runs: the day after a 1 March that
\* follows a 29 February
today == Date(2024, 3, 2)

\* a timestamp of the API on the day dt
Timestamp(dt) ==
    Pad4(dt.y) \o <<"-">> \o Pad2(dt.m) \o <<"-">> \o Pad2(dt.d) \o <<"T", "0", "Z">>

\* paper 1 in two versions, paper 2, and a paper with an old-style identifier
\* whose archive name holds the letter v
\* The first version is dated yesterday, the second has no date that parses,
\* paper 2 is dated three days ago and the old-style paper has no date at all.
E1a == [id |-> AbsUrl \o <<"1", "v", "1">>, tags |-> << <<"a", "C">> >>,
        title |-> <<"J", "w">>, summary |-> <<"x">>,
        arxiv_updated |-> NotAString, updated |-> Str(Timestamp(yesterday(today))),
        published |-> Str(Timestamp(yesterday(today))), arxiv_created |-> NotAString]
E1b == [id |-> AbsUrl \o <<"1", "v", "2">>, tags |-> << <<"a", "C">> >>,
        title |-> <<"J", "w">>, summary |-> <<"x">>,
        arxiv_updated |-> NotAString, updated |-> Str(<<>>),
        published |-> Str(<<"x">>), arxiv_created |-> NotAString]
E2 == [id |-> AbsUrl \o <<"2", "v", "1">>, tags |-> << <<"a", "c">>, <<"S", "r">> >>,
       title |-> <<"x">>, summary |-> <<"j", "W">>,
       arxiv_updated |-> NotAString, updated |-> Str(Timestamp(minus_days(today, 3))),
       published |-> Str(Timestamp(minus_days(today, 3))), arxiv_created |-> NotAString]
E3 == [id |-> AbsUrl \o <<"s", "v", "/", "1", "v", "1">>, tags |-> << <<"b">> >>,
       title |-> <<"x">>, summary |-> <<"x">>,
       arxiv_updated |-> NotAString, updated |-> NotAString,
       published |-> NotAString, arxiv_created |-> NotAString]

Entries == {E1a, E1b, E2, E3}

\* the entries of a page, in the order of their first appearance
Firsts == {<<>>, <<E1a>>, <<E1a, E1b>>, <<E2, E3>>}

\* What fetch_arxiv_batch returns: None (the request or its parsing raised), or
\* a feed of n entries; the entries of a page beyond `first` repeat identifiers
\* of `first`.  A response that is not a feed parses to a feed of no entries.
Fail == [ok |-> FALSE, n |-> 0, first |-> <<>>]
Feeds ==
    {[ok |-> TRUE, n |-> Len(f), first |-> f] : f \in Firsts}
    \cup {[ok |-> TRUE, n |-> max_results_per_call, first |-> f] : f \in Firsts \ {<<>>}}
Responses == {Fail} \cup Feeds

ManyKeywords ==
    [i \in 1..(batch_size + 1) |-> IF i = batch_size + 1 THEN <<"j", "w">> ELSE <<"z">>]

Criteria ==
    {[categories |-> None, excluded_categories |-> None, keywords |-> None,
      amount_of_days |-> d] : d \in 0..MaxDays}
    \cup {[categories |-> Some(<< <<"a", "c">> >>),
            excluded_categories |-> Some(<< <<"S", "R">> >>),
            keywords |-> Some(<< <<"j", "w">> >>), amount_of_days |-> d] : d \in 1..MaxDays}
    \cup {[categories |-> Some(<<>>), excluded_categories |-> None,
           keywords |-> Some(<< <<"j", "w">> >>), amount_of_days |-> 1],
          [categories |-> None, excluded_categories |-> Some(<<>>),
           keywords |-> Some(<<>>), amount_of_days |-> 1],
          [categories |-> None, excluded_categories |-> None,
           keywords |-> Some(ManyKeywords), amount_of_days |-> 1],
          [categories |-> None, excluded_categories |-> Some(<< <<"S", "R">> >>),
           keywords |-> Some(<< <<"j", "w">> >>), amount_of_days |-> MaxDays]}

NoRun == [set |-> FALSE, criteria |-> None, upstream |-> <<>>]

(***************************************************************************)
(* arxiv_alert                                                             *)
(***************************************************************************)
RECURSIVE collect(_, _, _)

\* collect putting the new entries of a page before those of the earlier pages
collect_newest_first(entries, ids, page) ==
    [entries |-> SelectSeq(page, LAMBDA e : arxiv_id_of(e) \notin ids) \o entries,
     ids |-> ids \cup {arxiv_id_of(page[i]) : i \in 1..Len(page)}]

\* collect without the test of line 353: every entry of the page is appended
collect_every_entry(entries, ids, page) ==
    [entries |-> entries \o page,
     ids |-> ids \cup {arxiv_id_of(page[i]) : i \in 1..Len(page)}]

\* lines 353-355, for the entries of one page
collect(entries, ids, page) ==
    IF page = <<>> THEN [entries |-> entries, ids |-> ids]
    ELSE LET entry == Head(page)
             entry_id == arxiv_id_of(entry)
         IN  IF entry_id \notin ids
             THEN collect(Append(entries, entry), ids \cup {entry_id}, Tail(page))
             ELSE collect(entries, ids, Tail(page))

\* the loop condition with the limit of the API for every number of days
within_cap_of_api_limit(offset, amount_of_days) == offset < api_limit

\* line 316: the loop condition of the paging loop
within_cap(offset, amount_of_days) == offset < max_total_results(amount_of_days)

\* next_page without the test of line 370: paging goes on until a page is empty
next_page_until_empty(feed) ==
    feed.ok /\ feed.n # 0

\* lines 330-378: the paging of this batch goes on to the next page
next_page(feed) ==
    feed.ok /\ feed.n # 0 /\ ~(feed.n < max_results_per_call)

\* after_page with a failed request ending the whole fetch, not only the batch
after_page_failure_ends_fetch(feed, batch, offset, c) ==
    IF ~feed.ok
    THEN [pc |-> "process", batch_idx |-> batch, start |-> offset]
    ELSE IF next_page(feed) /\ within_cap(offset + max_results_per_call, c.amount_of_days)
    THEN [pc |-> "fetch", batch_idx |-> batch, start |-> offset + max_results_per_call]
    ELSE IF batch < Len(keyword_batches(c.keywords))
    THEN [pc |-> "fetch", batch_idx |-> batch + 1, start |-> 0]
    ELSE [pc |-> "process", batch_idx |-> batch, start |-> offset]

\* lines 330-380: where the loops stand after a page: on the next page of the
\* batch, on the first page of the next batch, or past the last batch
after_page(feed, batch, offset, c) ==
    IF next_page(feed) /\ within_cap(offset + max_results_per_call, c.amount_of_days)
    THEN [pc |-> "fetch", batch_idx |-> batch, start |-> offset + max_results_per_call]
    ELSE IF batch < Len(keyword_batches(c.keywords))
    THEN [pc |-> "fetch", batch_idx |-> batch + 1, start |-> 0]
    ELSE [pc |-> "process", batch_idx |-> batch, start |-> offset]

\* is_already_processed looking up the identifier with its version
is_already_processed_versioned(entry, processed) ==
    arxiv_id_of(entry) \in processed.ids

\* line 476
is_already_processed(entry, processed) ==
    base_arxiv_id(arxiv_id_of(entry)) \in processed.ids

\* the two jobs that may run at the same time
Jobs == {"first", "second"}

\* a job that has not started
NotStarted ==
    [pc |-> "idle", criteria |-> None, processed_papers |-> EmptyStore,
     new_processed_papers |-> {}, loaded_after |-> 0, wrote |-> 0]

\* no run has started yet
IdleJob ==
    /\ jobs = [j \in Jobs |-> NotStarted]
    /\ pc = "idle"
    /\ criteria = None
    /\ processed_papers = EmptyStore
    /\ new_processed_papers = {}
    /\ batch_idx = 0
    /\ start = 0
    /\ all_entries = <<>>
    /\ all_entry_ids = {}
    /\ reqs = <<>>
    /\ upstream = <<>>
    /\ idx = 0
    /\ new_papers_count = 0
    /\ filtered_papers_count = 0
    /\ no_keywords_count = 0
    /\ already_processed_count = 0
    /\ shown_papers_count = 0
    /\ body = <<>>
    /\ digest = "none"
    /\ saved = FALSE
    /\ prev = NoRun
    /\ replay = FALSE
    /\ ever_persisted = {}

NoArg == [of |-> "none"]
NoOut == [done |-> FALSE]

\* The file is missing, undecodable, unreadable, or holds what earlier runs left: no
\* identifier yet, or identifiers of other papers up to the pruning threshold
Init ==
    /\ persisted \in {MissingFile, UndecodableFile, UnreadableFile}
                     \cup {ListFile([ids |-> {}, others |-> n]) :
                              n \in {0, prune_threshold - 1, prune_threshold}}
    /\ IdleJob
    /\ arg = NoArg
    /\ out = NoOut

\* lines 265-306: a run starts; when load_processed_papers raises, nothing
\* catches the exception and the job ends there, with no digest.  again: the
\* remote API will answer this run as it answered the run before, and the
\* criteria are those of the run before.
StartRun(c, again) ==
    /\ pc = "idle"
    /\ again => prev.set /\ c = prev.criteria
    /\ replay' = again
    /\ prev' = IF again THEN prev ELSE NoRun
    /\ criteria' = c
    /\ processed_papers' = IF load_raises(persisted) THEN EmptyStore
                            ELSE load_processed_papers(persisted)
    /\ new_processed_papers' = {}
    /\ batch_idx' = IF load_raises(persisted) THEN 0 ELSE 1
    /\ start' = 0
    /\ all_entries' = <<>>
    /\ all_entry_ids' = {}
    /\ reqs' = <<>>
    /\ upstream' = <<>>
    /\ idx' = 0
    /\ new_papers_count' = 0
    /\ filtered_papers_count' = 0
    /\ no_keywords_count' = 0
    /\ already_processed_count' = 0
    /\ shown_papers_count' = 0
    /\ body' = <<>>
    /\ digest' = IF load_raises(persisted) THEN "raised" ELSE "none"
    /\ saved' = FALSE
    /\ pc' = IF load_raises(persisted) THEN "idle" ELSE "fetch"
    /\ UNCHANGED <<persisted, ever_persisted, arg, out, jobs>>

\* lines 316-380: one page request and what the loops do with its response
FetchPage(feed) ==
    /\ pc = "fetch"
    /\ within_cap(start, criteria.amount_of_days)
    /\ replay => /\ Len(upstream) < Len(prev.upstream)
                 /\ feed = prev.upstream[Len(upstream) + 1]
    /\ reqs' = Append(reqs, [batch |-> batch_idx, start |-> start,
                             keywords_batch |-> keyword_batches(criteria.keywords)[batch_idx],
                             n |-> IF feed.ok THEN feed.n ELSE -1])
    /\ upstream' = Append(upstream, feed)
    /\ LET got == IF feed.ok THEN collect(all_entries, all_entry_ids, feed.first)
                  ELSE [entries |-> all_entries, ids |-> all_entry_ids]
       IN  /\ all_entries' = got.entries
           /\ all_entry_ids' = got.ids
    /\ LET then == after_page(feed, batch_idx, start, criteria)
       IN  /\ pc' = then.pc
           /\ batch_idx' = then.batch_idx
           /\ start' = then.start
           /\ idx' = IF then.pc = "process" THEN 1 ELSE idx
    /\ UNCHANGED <<persisted, criteria, processed_papers, new_processed_papers,
                   countVars, digest, saved, prev, replay, ever_persisted, arg, out, jobs>>

\* no_papers_page with the message of a run whose entries were all rejected
no_papers_page_as_statistics(written) ==
    IF written THEN "no papers shown" ELSE "not written"

\* lines 384-420: the page says that no papers were found; when writing the
\* file raises, the error is logged and the run returns None
no_papers_page(written) ==
    IF written THEN "no papers found" ELSE "not written"

\* lines 382-421: nothing was fetched; the digest says so and the run returns
NoPapersDigest(written) ==
    /\ pc = "process"
    /\ Len(all_entries) = 0
    /\ digest' = no_papers_page(written)
    /\ prev' = [set |-> TRUE, criteria |-> criteria, upstream |-> upstream]
    /\ pc' = "idle"
    /\ UNCHANGED <<persisted, runVars, countVars, saved, replay, ever_persisted, arg, out, jobs>>

\* counting only the entries rejected for an excluded category
counted_as_filtered_excluded_only(verdict) == verdict = "excluded"

\* lines 515 and 524: the rejections that filtered_papers_count counts
counted_as_filtered(verdict) == verdict \in {"required", "excluded"}

\* lines 471-594: one iteration of the processing loop
ProcessEntry ==
    /\ pc = "process"
    /\ Len(all_entries) # 0
    /\ idx <= Len(all_entries)
    /\ LET entry == all_entries[idx]
           arxiv_id == arxiv_id_of(entry)
           seen == is_already_processed(entry, processed_papers)
           date_check == is_date_in_range(entry,
                                          start_window(today, criteria.amount_of_days),
                                          yesterday(today))
           verdict == entry_verdict(criteria, entry, date_check)
       IN  /\ already_processed_count' = already_processed_count + (IF seen THEN 1 ELSE 0)
           /\ filtered_papers_count' =
                  filtered_papers_count + (IF counted_as_filtered(verdict) THEN 1 ELSE 0)
           /\ no_keywords_count' = no_keywords_count + (IF verdict = "keyword" THEN 1 ELSE 0)
           /\ IF verdict = "accepted"
              THEN /\ new_processed_papers' =
                          IF seen THEN new_processed_papers
                          ELSE new_processed_papers \cup {base_arxiv_id(arxiv_id)}
                   /\ new_papers_count' = new_papers_count + (IF seen THEN 0 ELSE 1)
                   /\ shown_papers_count' = shown_papers_count + 1
                   /\ body' = Append(body,
                          [arxiv_id |-> arxiv_id,
                           badge |-> IF seen THEN "(seen before)" ELSE "[NEW]",
                           matching_keywords |->
                               IF criteria.keywords.given
                               THEN find_matching_keywords(entry.title, entry.summary,
                                                           criteria.keywords.list)
                               ELSE <<>>])
              ELSE UNCHANGED <<new_processed_papers, new_papers_count,
                               shown_papers_count, body>>
    /\ idx' = idx + 1
    /\ UNCHANGED <<persisted, pc, criteria, processed_papers, batch_idx, start,
                   all_entries, all_entry_ids, reqs, upstream, digest, saved,
                   prev, replay, ever_persisted, arg, out, jobs>>

\* lines 596-643: the summary, the update of the store, the digest file
FinishRun(written) ==
    /\ pc = "process"
    /\ Len(all_entries) # 0
    /\ idx > Len(all_entries)
    /\ \E kept \in clean_old_processed_papers(
                       [ids |-> processed_papers.ids \cup new_processed_papers,
                        others |-> processed_papers.others]) :
           /\ processed_papers' = kept
           /\ persisted' = save_processed_papers(persisted, kept)
           /\ ever_persisted' = ever_persisted \cup kept.ids
    /\ saved' = TRUE
    /\ digest' = IF ~written THEN "not written"
                 ELSE IF shown_papers_count = 0 THEN "no papers shown"
                 ELSE "summary"
    /\ prev' = [set |-> TRUE, criteria |-> criteria, upstream |-> upstream]
    /\ pc' = "idle"
    /\ UNCHANGED <<criteria, new_processed_papers, batch_idx, start, all_entries,
                   all_entry_ids, reqs, upstream, idx, countVars, replay, arg, out, jobs>>

Next ==
    \/ \E c \in Criteria, again \in BOOLEAN : StartRun(c, again)
    \/ \E feed \in Responses : FetchPage(feed)
    \/ \E written \in BOOLEAN : NoPapersDigest(written)
    \/ ProcessEntry
    \/ \E written \in BOOLEAN : FinishRun(written)

Spec == Init /\ [][Next]_vars

(***************************************************************************)
(* The paging loop alone, to the depth of the API limit: a run that has    *)
(* just started, against an API that answers with a failure, an empty, a   *)
(* short or a full page.                                                   *)
(***************************************************************************)
MaxPagingDays == 11

PagingCriteria ==
    {[categories |-> None, excluded_categories |-> None, keywords |-> k,
      amount_of_days |-> d] : k \in {None, Some(ManyKeywords)}, d \in 0..MaxPagingDays}

PagingResponses ==
    {Fail,
     [ok |-> TRUE, n |-> 0, first |-> <<>>],
     [ok |-> TRUE, n |-> 1, first |-> <<E1a>>],
     [ok |-> TRUE, n |-> max_results_per_call, first |-> <<E1a>>]}

InitPaging ==
    /\ persisted = MissingFile
    /\ pc = "fetch"
    /\ criteria \in PagingCriteria
    /\ processed_papers = EmptyStore
    /\ new_processed_papers = {}
    /\ batch_idx = 1
    /\ start = 0
    /\ all_entries = <<>>
    /\ all_entry_ids = {}
    /\ reqs = <<>>
    /\ upstream = <<>>
    /\ idx = 0
    /\ new_papers_count = 0
    /\ filtered_papers_count = 0
    /\ no_keywords_count = 0
    /\ already_processed_count = 0
    /\ shown_papers_count = 0
    /\ body = <<>>
    /\ digest = "none"
    /\ saved = FALSE
    /\ prev = NoRun
    /\ replay = FALSE
    /\ ever_persisted = {}
    /\ arg = NoArg
    /\ out = NoOut
    /\ jobs = [j \in Jobs |-> NotStarted]

NextPaging == \E feed \in PagingResponses : FetchPage(feed)

SpecPaging == InitPaging /\ [][NextPaging]_vars

\* the run goes on: a request returns, with a feed or with None (the timeout
\* of line 254), and the loop takes its next step
SpecPagingFair == SpecPaging /\ WF_vars(NextPaging)

(***************************************************************************)
(* Two jobs started at the same time on the same processed-papers file.    *)
(* Each is a run of arxiv_alert with its own local variables; the file is  *)
(* read at line 265 and written at line 613, with nothing held in between. *)
(***************************************************************************)
\* lines 471-541: the identifiers the processing loop adds for these entries
accepted_new(c, entries, processed) ==
    {base_arxiv_id(arxiv_id_of(entries[i])) :
         i \in {k \in 1..Len(entries) :
                    /\ filter_chain(c, entries[k]) = "accepted"
                    /\ ~is_already_processed(entries[k], processed)}}

ConcurrentCriteria == {c \in Criteria : c.amount_of_days = 1}

\* the number of jobs that have written the file
Writes == Cardinality({j \in Jobs : jobs[j].wrote # 0})

InitConcurrent ==
    /\ persisted \in {MissingFile, UndecodableFile}
                     \cup {ListFile([ids |-> {}, others |-> n]) :
                              n \in {0, prune_threshold - 1, prune_threshold}}
    /\ IdleJob
    /\ arg = NoArg
    /\ out = NoOut

\* lines 265-266 in job j
JobLoad(j, c) ==
    /\ jobs[j].pc = "idle"
    /\ jobs' = [jobs EXCEPT ![j] =
                    [pc |-> "loaded", criteria |-> c,
                     processed_papers |-> load_processed_papers(persisted),
                     new_processed_papers |-> {},
                     loaded_after |-> Writes, wrote |-> 0]]
    /\ UNCHANGED <<jobVars, arg, out>>

\* lines 304-594 in job j, the API answering with one short page; with no
\* entry the job returns at line 417 without writing the file
JobFetchAndProcess(j, feed) ==
    /\ jobs[j].pc = "loaded"
    /\ feed.ok /\ feed.n = Len(feed.first)
    /\ jobs' = [jobs EXCEPT
                    ![j].pc = IF feed.n = 0 THEN "done" ELSE "processed",
                    ![j].new_processed_papers =
                        accepted_new(jobs[j].criteria, feed.first,
                                     jobs[j].processed_papers)]
    /\ UNCHANGED <<jobVars, arg, out>>

\* lines 610-613 in job j
JobSave(j) ==
    /\ jobs[j].pc = "processed"
    /\ \E kept \in clean_old_processed_papers(
                       [ids |-> jobs[j].processed_papers.ids
                                    \cup jobs[j].new_processed_papers,
                        others |-> jobs[j].processed_papers.others]) :
           /\ persisted' = save_processed_papers(persisted, kept)
           /\ jobs' = [jobs EXCEPT ![j].pc = "done",
                                   ![j].processed_papers = kept,
                                   ![j].wrote = Writes + 1]
    /\ UNCHANGED <<pc, runVars, countVars, digest, saved, prev, replay, ever_persisted, arg, out>>

NextConcurrent ==
    \/ \E j \in Jobs, c \in ConcurrentCriteria : JobLoad(j, c)
    \/ \E j \in Jobs, feed \in Feeds : JobFetchAndProcess(j, feed)
    \/ \E j \in Jobs : JobSave(j)

SpecConcurrent == InitConcurrent /\ [][NextConcurrent]_vars

(***************************************************************************)
(* The pure functions, each applied once to an input drawn from a bounded  *)
(* set, with no run under way.                                             *)
(***************************************************************************)
NoJob == persisted = MissingFile /\ IdleJob

\* all sequences over chars of length at most n
SeqsUpTo(chars, n) == UNION {[1..k -> chars] : k \in 0..n}

\* --- base_arxiv_id ---
MaxIdLen == 5

IdLetters == {"s", "v"}
IdDigits == {"1", "2"}

\* a number, or a number, "v" and a number
IsNumberVersion(r) ==
    \E k \in 1..Len(r) :
        /\ \A i \in 1..k : r[i] \in IdDigits
        /\ \/ k = Len(r)
           \/ /\ Len(r) >= k + 2
              /\ r[k + 1] = "v"
              /\ \A i \in (k + 2)..Len(r) : r[i] \in IdDigits

\* an arXiv identifier: [archive "/"] number ["v" version]
IsArxivId(s) ==
    \/ IsNumberVersion(s)
    \/ \E p \in 2..Len(s) :
           /\ s[p] = "/"
           /\ \A i \in 1..(p - 1) : s[i] \in IdLetters
           /\ IsNumberVersion(SubSeq(s, p + 1, Len(s)))

ArxivIds == {s \in SeqsUpTo(IdLetters \cup IdDigits \cup {"/"}, MaxIdLen) : IsArxivId(s)}

InitBaseId ==
    /\ NoJob
    /\ arg \in {[a |-> x, b |-> y] : x \in ArxivIds, y \in ArxivIds}
    /\ out = NoOut

ApplyBaseId ==
    /\ ~out.done
    /\ out' = [done |-> TRUE, a |-> base_arxiv_id(arg.a), b |-> base_arxiv_id(arg.b)]
    /\ UNCHANGED <<jobVars, arg, jobs>>

SpecBaseId == InitBaseId /\ [][ApplyBaseId]_vars

\* --- the category checks of the filter chain ---
MaxCategories == 1
MaxTags == 2

CategoryNames == {<<"a", "c">>, <<"a", "C">>, <<"s", "r">>, <<"S", "R">>}

OptionalLists(names, n) == {None} \cup {Some(l) : l \in SeqsUpTo(names, n)}

InitCategories ==
    /\ NoJob
    /\ arg \in {[categories |-> c, excluded_categories |-> x, tags |-> t] :
                    c \in OptionalLists(CategoryNames, MaxCategories),
                    x \in OptionalLists(CategoryNames, MaxCategories),
                    t \in SeqsUpTo(CategoryNames, MaxTags) \ {<<>>}}
    /\ out = NoOut

ApplyCategoryChecks ==
    /\ ~out.done
    /\ out' = [done |-> TRUE,
               verdict |-> filter_chain(
                   [categories |-> arg.categories,
                    excluded_categories |-> arg.excluded_categories,
                    keywords |-> None, amount_of_days |-> 1],
                   [id |-> AbsUrl \o <<"1", "v", "1">>, tags |-> arg.tags,
                    title |-> <<>>, summary |-> <<>>])]
    /\ UNCHANGED <<jobVars, arg, jobs>>

SpecCategories == InitCategories /\ [][ApplyCategoryChecks]_vars

\* --- find_matching_keywords ---
MaxTextLen == 2
MaxKeywords == 2

TextChars == {"a", "A", "b"}

KeywordPool ==
    {<<"a">>, <<"A", "b">>, <<"b", "a">>, <<Quote, "a", Quote>>, <<Quote, "B">>}

InitKeywords ==
    /\ NoJob
    /\ arg \in {[title |-> t, abstract |-> a, keywords |-> k] :
                    t \in SeqsUpTo(TextChars, MaxTextLen),
                    a \in SeqsUpTo(TextChars, MaxTextLen),
                    k \in SeqsUpTo(KeywordPool, MaxKeywords)}
    /\ out = NoOut

ApplyFindMatchingKeywords ==
    /\ ~out.done
    /\ out' = [done |-> TRUE,
               matches |-> find_matching_keywords(arg.title, arg.abstract, arg.keywords)]
    /\ UNCHANGED <<jobVars, arg, jobs>>

SpecKeywords == InitKeywords /\ [][ApplyFindMatchingKeywords]_vars

(***************************************************************************)
(* parse_arxiv_date on strings put together from a head, a year, a month,  *)
(* a day and a tail, and on a value that is not a string                   *)
(***************************************************************************)
DateYearTexts ==
    {<<"2", "0", "2", "4">>,
     <<"2", "0", "2", "3">>,
     <<"1", "9", "0", "0">>,
     <<"2", "0", "0", "0">>,
     <<"0", "0", "0", "0">>,
     <<"0", "2", "4">>}

DateMonthTexts ==
    {<<"0", "2">>,
     <<"2">>,
     <<"1", "2">>,
     <<"1", "3">>,
     <<"0", "0">>,
     <<"1">>}

DateDayTexts ==
    {<<"2", "9">>,
     <<"3", "0">>,
     <<"3", "1">>,
     <<"3", "2">>,
     <<" ", "5">>,
     <<"5">>,
     <<"0", "5">>,
     <<"0", "0">>}

DateSeparators ==
    {<<"-">>,
     <<"/">>}

DateHeads ==
    {<<>>,
     <<" ">>}

DateTails ==
    {<<>>,
     <<"T">>,
     <<"T", "1", "2", ":", "3", "4", ":", "5", "6", "Z">>,
     <<"T", "x">>,
     <<"x">>,
     <<"t", "0">>}

DateStrings ==
    {h \o y \o sep \o m \o sep \o d \o tl :
         h \in DateHeads, y \in DateYearTexts, sep \in DateSeparators,
         m \in DateMonthTexts, d \in DateDayTexts, tl \in DateTails}
    \cup {<<>>, <<"i", "n", "v", "a", "l", "i", "d">>}

InitParseDate ==
    /\ NoJob
    /\ arg \in {NotAString} \cup {Str(s) : s \in DateStrings}
    /\ out = NoOut

ApplyParseDate ==
    /\ ~out.done
    /\ out' = [done |-> TRUE, date |-> parse_arxiv_date(arg)]
    /\ UNCHANGED <<jobVars, arg, jobs>>

SpecParseDate == InitParseDate /\ [][ApplyParseDate]_vars

(***************************************************************************)
(* The date check of one entry, and what the processing loop makes of its  *)
(* result: entries whose date attributes are missing, empty, unparseable,  *)
(* bytes, or dates in and around the window                                *)
(***************************************************************************)
DateFieldValues ==
    {NotAString, Str(<<>>), Str(<<"x">>), Bytes(<<"x">>),
     Str(Timestamp(today)), Str(Timestamp(yesterday(today))),
     Str(Timestamp(minus_days(today, 2)))}

DatedEntries ==
    {[e EXCEPT !.arxiv_updated = a, !.updated = u, !.published = p, !.arxiv_created = c] :
         e \in {E1a, E2}, a \in DateFieldValues, u \in DateFieldValues,
         p \in DateFieldValues, c \in DateFieldValues}

DateCheckCriteria ==
    {c \in Criteria : c.amount_of_days \in {1, 2} /\ c.keywords \in {None, Some(<< <<"j", "w">> >>)}
                      /\ c.categories # Some(<<>>)}

InitDateCheck ==
    /\ NoJob
    /\ arg \in {[entry |-> e, criteria |-> c] : e \in DatedEntries, c \in DateCheckCriteria}
    /\ out = NoOut

ApplyDateCheck ==
    /\ ~out.done
    /\ LET date_check == is_date_in_range(arg.entry,
                                          start_window(today, arg.criteria.amount_of_days),
                                          yesterday(today))
       IN  out' = [done |-> TRUE, date_check |-> date_check,
                   verdict |-> entry_verdict(arg.criteria, arg.entry, date_check)]
    /\ UNCHANGED <<jobVars, arg, jobs>>

SpecDateCheck == InitDateCheck /\ [][ApplyDateCheck]_vars

(***************************************************************************)
(* build_arxiv_query on optional lists of categories, keywords and authors *)
(* and optional dates                                                      *)
(***************************************************************************)
MaxQueryTerms == 2

\* None, and the lists of at most MaxQueryTerms of the names
QueryLists(names) == {None} \cup {Some(l) : l \in SeqsUpTo(names, MaxQueryTerms)}

QueryCategories == {<<"a">>, <<"b">>}
QueryKeywords == {<<"k">>, <<"j", " ", "w">>}
QueryAuthors == {<<"n">>, <<"m">>}
QueryDates == {NoDate, Date(2024, 2, 29), today}

InitQuery ==
    /\ NoJob
    /\ arg \in {[categories |-> c, keywords |-> k, authors |-> a,
                 start_date |-> s, end_date |-> e] :
                    c \in QueryLists(QueryCategories), k \in QueryLists(QueryKeywords),
                    a \in QueryLists(QueryAuthors), s \in QueryDates, e \in QueryDates}
    /\ out = NoOut

ApplyBuildQuery ==
    /\ ~out.done
    /\ out' = [done |-> TRUE,
               query |-> build_arxiv_query(arg.categories, arg.keywords, arg.authors,
                                           arg.start_date, arg.end_date)]
    /\ UNCHANGED <<jobVars, arg, jobs>>

SpecQuery == InitQuery /\ [][ApplyBuildQuery]_vars

(***************************************************************************)
(* The split of a keyword list into batches, for lists of every length up  *)
(* to two full batches and one keyword                                     *)
(***************************************************************************)
MaxBatchKeywords == 31

\* the lists of n keywords: numbered keywords with one of three first
\* letters, and n times the same keyword
NumberedKeywords(letter, n) == [i \in 1..n |-> <<letter>> \o Pad2(i)]
KeywordLists ==
    {NumberedKeywords(l, n) : l \in {"k", "j", "z"}, n \in 0..MaxBatchKeywords}
    \cup {[i \in 1..n |-> <<"z">>] : n \in 1..MaxBatchKeywords}

InitBatches ==
    /\ NoJob
    /\ arg \in {None} \cup {Some(l) : l \in KeywordLists}
    /\ out = NoOut

ApplyKeywordBatches ==
    /\ ~out.done
    /\ out' = [done |-> TRUE, batches |-> keyword_batches(arg)]
    /\ UNCHANGED <<jobVars, arg, jobs>>

SpecBatches == InitBatches /\ [][ApplyKeywordBatches]_vars

(***************************************************************************)
(* clean_old_processed_papers on sets of every size around the two         *)
(* numbers of the policy                                                   *)
(***************************************************************************)
\* the base identifiers of the papers of the model
PaperIds == {base_arxiv_id(arxiv_id_of(e)) : e \in Entries}

\* how far from each of the two numbers the sizes go
MaxSizeOffset == 2

StoreSizes ==
    {n \in 0..(prune_threshold + MaxSizeOffset) :
         \/ n <= MaxSizeOffset
         \/ n >= prune_keep - MaxSizeOffset /\ n <= prune_keep + MaxSizeOffset
         \/ n >= prune_threshold - MaxSizeOffset}

InitPrune ==
    /\ NoJob
    /\ arg \in {[ids |-> k, others |-> n - Cardinality(k)] :
                   k \in {x \in SUBSET PaperIds : Cardinality(x) <= 2},
                   n \in {m \in StoreSizes : m >= 2}}
    /\ out = NoOut

ApplyPrune ==
    /\ ~out.done
    /\ \E kept \in clean_old_processed_papers(arg) :
           out' = [done |-> TRUE, kept |-> kept]
    /\ UNCHANGED <<jobVars, arg, jobs>>

SpecPrune == InitPrune /\ [][ApplyPrune]_vars

(***************************************************************************)
(* The date window of a run, for current dates at the turns of months and  *)
(* years, in leap years and others                                         *)
(***************************************************************************)
MaxWindowDays == 32

CurrentDates ==
    {Date(2024, 3, 2), Date(2024, 3, 1), Date(2023, 3, 1), Date(1900, 3, 1),
     Date(2000, 3, 1), Date(2024, 1, 1), Date(2024, 1, 2), Date(2024, 12, 31),
     Date(2024, 5, 31), Date(2024, 8, 1)}

InitWindow ==
    /\ NoJob
    /\ arg \in {[today |-> t, amount_of_days |-> d] :
                   t \in CurrentDates, d \in (-1)..MaxWindowDays}
    /\ out = NoOut

\* lines 268-279, and the dates the fetch loop hands on at lines 324-325
ApplyWindow ==
    /\ ~out.done
    /\ out' = [done |-> TRUE,
               yesterday |-> yesterday(arg.today),
               start_window |-> start_window(arg.today, arg.amount_of_days),
               api_start |-> api_start_window(arg.today, arg.amount_of_days),
               api_end |-> yesterday(arg.today)]
    /\ UNCHANGED <<jobVars, arg, jobs>>

SpecWindow == InitWindow /\ [][ApplyWindow]_vars

(***************************************************************************)
(* Properties                                                              *)
(***************************************************************************)
Digits == {"0", "1", "2", "3", "4", "5", "6", "7", "8", "9"}

\* the number of digits s ends with
RECURSIVE TrailingDigits(_)
TrailingDigits(s) ==
    IF s # <<>> /\ s[Len(s)] \in Digits
    THEN 1 + TrailingDigits(SubSeq(s, 1, Len(s) - 1))
    ELSE 0

\* the identifier without its trailing version marker, "v" and a number
VersionStripped(s) ==
    LET k == TrailingDigits(s)
    IN  IF k >= 1 /\ Len(s) > k /\ s[Len(s) - k] = "v"
        THEN SubSeq(s, 1, Len(s) - k - 1)
        ELSE s

\* the positions of all_entries the processing loop has dealt with
Processed == 1..(idx - 1)

AcceptedAt(i) ==
    /\ ~fails_required(criteria, all_entries[i])
    /\ ~fails_excluded(criteria, all_entries[i])
    /\ ~fails_keywords(criteria, all_entries[i])

KnownAt(i) == VersionStripped(arxiv_id_of(all_entries[i])) \in processed_papers.ids

\* C1: an entry that passes the filter chain and whose base identifier is in
\* the processed set loaded at run start is in the rendered output with the
\* seen-before marker, and is not counted as new
C1_SeenBeforeStillShown ==
    pc = "process" =>
        /\ \A i \in Processed :
               AcceptedAt(i) /\ KnownAt(i) =>
                   \E j \in DOMAIN body :
                       /\ body[j].arxiv_id = arxiv_id_of(all_entries[i])
                       /\ body[j].badge = "(seen before)"
        /\ new_papers_count
               <= Cardinality({i \in Processed : AcceptedAt(i) /\ ~KnownAt(i)})

\* an accepted entry whose base identifier was in the loaded set has been processed
C1_Witness ==
    /\ pc = "process"
    /\ \E i \in Processed : AcceptedAt(i) /\ KnownAt(i)

\* C2: a run that follows a run with the same criteria and the same upstream
\* results, and loads the store as that run left it, counts no entry as new
C2_SecondRunNothingNew ==
    (pc = "idle" /\ replay) => new_papers_count = 0

\* C3: within a keyword batch no page is requested after a page that returned
\* fewer entries than the page size, and no request has an offset at or beyond
\* min(2000, 200 * amount_of_days)
C3_PaginationStops ==
    \A i \in DOMAIN reqs :
        LET d == IF criteria.amount_of_days < 1 THEN 1 ELSE criteria.amount_of_days
            cap == IF max_results_per_call * d > api_limit
                   THEN api_limit ELSE max_results_per_call * d
        IN  /\ reqs[i].start < cap
            /\ \A j \in DOMAIN reqs :
                   (j > i /\ reqs[j].batch = reqs[i].batch)
                       => reqs[i].n >= max_results_per_call

\* the paging of batch 1 was ended by the API limit, after ten full pages
C3_Witness ==
    /\ batch_idx = 2
    /\ Cardinality({i \in DOMAIN reqs : reqs[i].batch = 1}) * max_results_per_call
           = api_limit
    /\ \A i \in DOMAIN reqs : reqs[i].n = max_results_per_call

\* C4: the entries of a run that share a base identifier count as one: the
\* new count and the identifiers added to the processed set do not exceed the
\* number of distinct base identifiers among the accepted entries
C4_VersionsCountOnce ==
    pc = "process" =>
        LET papers == {VersionStripped(arxiv_id_of(all_entries[i])) :
                           i \in {k \in Processed : AcceptedAt(k)}}
        IN  /\ new_papers_count <= Cardinality(papers)
            /\ Cardinality(new_processed_papers) <= Cardinality(papers)

\* C6: every entry is rejected by the first check it fails, in the order
\* required category, excluded category, keyword, and counted once, by the
\* counter of that check; it is rendered exactly when it fails none
C6_FilterChainOrder ==
    pc = "process" =>
        LET byCategory == {i \in Processed :
                               \/ fails_required(criteria, all_entries[i])
                               \/ fails_excluded(criteria, all_entries[i])}
            byKeyword == {i \in Processed \ byCategory :
                              fails_keywords(criteria, all_entries[i])}
            accepted == (Processed \ byCategory) \ byKeyword
        IN  /\ filtered_papers_count = Cardinality(byCategory)
            /\ no_keywords_count = Cardinality(byKeyword)
            /\ shown_papers_count = Cardinality(accepted)
            /\ Len(body) = Cardinality(accepted)
            /\ \A i \in Processed :
                   i \in accepted <=>
                       \E j \in DOMAIN body : body[j].arxiv_id = arxiv_id_of(all_entries[i])

\* an entry that fails the required-category check and the keyword check
C6_Witness ==
    /\ pc = "process"
    /\ \E i \in Processed :
           /\ fails_required(criteria, all_entries[i])
           /\ fails_keywords(criteria, all_entries[i])
    /\ \E i \in Processed : AcceptedAt(i)
    /\ \E i \in Processed :
           ~fails_required(criteria, all_entries[i])
           /\ fails_excluded(criteria, all_entries[i])

\* C10: after a failed page request no further page of that batch is
\* requested, the entries of the pages received are kept, and once the fetch
\* is over every batch has been requested
C10_FailedPageKeepsRun ==
    \A i \in DOMAIN reqs :
        reqs[i].n = -1 =>
            /\ \A j \in DOMAIN reqs : j > i => reqs[j].batch # reqs[i].batch
            /\ \A j \in DOMAIN upstream :
                   upstream[j].ok =>
                       \A k \in DOMAIN upstream[j].first :
                           \E m \in DOMAIN all_entries :
                               all_entries[m].id = upstream[j].first[k].id
            /\ pc # "fetch" =>
                   \A b \in 1..Len(keyword_batches(criteria.keywords)) :
                       \E j \in DOMAIN reqs : reqs[j].batch = b

\* the request of the first of two batches failed, and the second batch was fetched
C10_Witness ==
    /\ pc = "process"
    /\ Len(reqs) = 2
    /\ reqs[1].n = -1
    /\ reqs[2].batch = 2
    /\ all_entries # <<>>

\* C5: the base identifier is the identifier without its trailing version
\* marker, and identifiers of different papers have different base identifiers
C5_BaseIdStripsVersionOnly ==
    out.done =>
        /\ out.a = VersionStripped(arg.a)
        /\ out.b = VersionStripped(arg.b)
        /\ VersionStripped(arg.a) # VersionStripped(arg.b) => out.a # out.b

\* two letters that differ at most in case
CasePairs ==
    {<<"A", "a">>, <<"B", "b">>, <<"C", "c">>, <<"J", "j">>, <<"R", "r">>,
     <<"S", "s">>, <<"V", "v">>, <<"W", "w">>}
SameLetter(x, y) == x = y \/ <<x, y>> \in CasePairs \/ <<y, x>> \in CasePairs

\* two strings that are equal ignoring letter case
EqualIgnoringCase(s, t) ==
    Len(s) = Len(t) /\ \A i \in DOMAIN s : SameLetter(s[i], t[i])

\* a tag of the entry equals, ignoring case, a category of the list
TagAmong(tags, categories) ==
    \E i \in DOMAIN tags, j \in DOMAIN categories.list :
        EqualIgnoringCase(tags[i], categories.list[j])

\* C7: with a (non-empty) required list the entry passes the required-category
\* check exactly when a tag equals a required category ignoring case; with no
\* list the check rejects nothing
C7_RequiredIgnoresCase ==
    out.done =>
        (out.verdict = "required"
             <=> /\ arg.categories.given
                 /\ arg.categories.list # <<>>
                 /\ ~TagAmong(arg.tags, arg.categories))

\* the entry passes only because case is ignored
C7_Witness ==
    /\ out.done
    /\ out.verdict # "required"
    /\ arg.categories.given
    /\ arg.categories.list # <<>>
    /\ \A i \in DOMAIN arg.tags : arg.tags[i] \notin Range(arg.categories.list)

\* C8: an entry that reaches the excluded-category check is rejected by it
\* exactly when an exclusion list is given and a tag equals an excluded
\* category ignoring case
C8_ExcludedIgnoresCase ==
    (out.done /\ out.verdict # "required") =>
        (out.verdict = "excluded"
             <=> /\ arg.excluded_categories.given
                 /\ TagAmong(arg.tags, arg.excluded_categories))

\* an entry with a required category is rejected for a tag that equals an
\* excluded category only when case is ignored
C8_Witness ==
    /\ out.done
    /\ out.verdict = "excluded"
    /\ arg.categories.given
    /\ TagAmong(arg.tags, arg.categories)
    /\ \A i \in DOMAIN arg.tags : arg.tags[i] \notin Range(arg.excluded_categories.list)

\* kw occurs in text as a substring, ignoring letter case
OccursIn(kw, text) ==
    \E i \in 0..(Len(text) - Len(kw)) :
        \A k \in 1..Len(kw) : SameLetter(text[i + k], kw[k])

\* kw without its leading and trailing double quotes
Unquoted(kw) ==
    LET inner == {i \in DOMAIN kw : kw[i] # Quote}
    IN  IF inner = {} THEN <<>>
        ELSE SubSeq(kw, CHOOSE i \in inner : \A j \in inner : i <= j,
                        CHOOSE i \in inner : \A j \in inner : i >= j)

\* where kw occurs: the annotation of its match
C9_Where(kw) ==
    (IF OccursIn(kw, arg.title) THEN <<"title">> ELSE <<>>)
    \o (IF OccursIn(kw, arg.abstract) THEN <<"abstract">> ELSE <<>>)

\* C9 as stated: the matches are, in the order of the list, the keywords that
\* occur in the title or the abstract ignoring case, each with where it occurs
C9_MatchesKeywordsAsGiven ==
    out.done =>
        LET Hit(kw) == C9_Where(kw) # <<>>
            hits == SelectSeq(arg.keywords, Hit)
        IN  /\ Len(out.matches) = Len(hits)
            /\ \A i \in DOMAIN hits :
                   /\ out.matches[i].keyword = hits[i]
                   /\ out.matches[i].found_in = C9_Where(hits[i])

\* C9, amended: the matches are, in the order of the list, the keywords that
\* occur in the title or the abstract ignoring case once their leading and
\* trailing double quotes are removed; each match is the keyword as given,
\* with where it occurs
C9_MatchesUnquotedKeywords ==
    out.done =>
        LET Hit(kw) == C9_Where(Unquoted(kw)) # <<>>
            hits == SelectSeq(arg.keywords, Hit)
        IN  /\ Len(out.matches) = Len(hits)
            /\ \A i \in DOMAIN hits :
                   /\ out.matches[i].keyword = hits[i]
                   /\ out.matches[i].found_in = C9_Where(Unquoted(hits[i]))

\* two keywords are matched, one of them quoted and in another case than the
\* text, and they are found in different places
C9_Witness ==
    /\ out.done
    /\ Len(out.matches) = 2
    /\ out.matches[1].keyword = <<Quote, "B">>
    /\ out.matches[1].found_in = <<"title", "abstract">>
    /\ out.matches[2].found_in = <<"abstract">>
    /\ Len(arg.keywords) = 2

\* C11: the collected entries hold no identifier twice, and hold every
\* identifier of every page that was fetched successfully, whichever keyword
\* batch or page it came from
C11_CollectedOncePerId ==
    /\ \A i, j \in 1..Len(all_entries) :
           arxiv_id_of(all_entries[i]) = arxiv_id_of(all_entries[j]) => i = j
    /\ all_entry_ids = {arxiv_id_of(all_entries[i]) : i \in 1..Len(all_entries)}
    /\ \A k \in 1..Len(upstream) :
           upstream[k].ok =>
               \A m \in 1..Len(upstream[k].first) :
                   arxiv_id_of(upstream[k].first[m]) \in all_entry_ids

\* the fetch is over, two pages of two keyword batches returned the same entry,
\* and a page returned an entry more than once
C11_Witness ==
    /\ pc = "process"
    /\ \E k, l \in 1..Len(upstream) :
           /\ reqs[k].batch # reqs[l].batch
           /\ upstream[k].ok /\ upstream[l].ok
           /\ upstream[k].n > Len(upstream[k].first)
           /\ \E m \in 1..Len(upstream[k].first), n \in 1..Len(upstream[l].first) :
                  upstream[k].first[m] = upstream[l].first[n]

\* a run has ended and no other has started
RunEnded == pc = "idle" /\ prev.set /\ prev.upstream = upstream

\* C12: no run ends without having written the processed set to the file
C12_EveryRunPersists == RunEnded => saved

\* both jobs have written the file, and each read it before either wrote it
BothWroteAfterBothLoaded ==
    \A j \in Jobs : jobs[j].pc = "done" /\ jobs[j].wrote # 0 /\ jobs[j].loaded_after = 0

LastWriter == CHOOSE j \in Jobs : jobs[j].wrote = Cardinality(Jobs)

\* C13: when both jobs read the file before either wrote it, the file holds
\* afterwards what the last writer wrote, and none of the identifiers that only
\* the other job accepted
C13_LastWriterWins ==
    BothWroteAfterBothLoaded =>
        /\ persisted = ListFile(jobs[LastWriter].processed_papers)
        /\ \A j \in Jobs \ {LastWriter} :
               (jobs[j].new_processed_papers \ jobs[LastWriter].new_processed_papers)
                   \cap persisted.ids = {}

\* an identifier accepted by the first writer only, and written by it, is lost
C13_Witness ==
    /\ BothWroteAfterBothLoaded
    /\ \E j \in Jobs \ {LastWriter} :
           (jobs[j].new_processed_papers \cap jobs[j].processed_papers.ids)
               \ jobs[LastWriter].new_processed_papers # {}

\* a run has been started since the job was idle for the first time
RunStarted == pc # "idle" \/ digest # "none"

\* C14: no run raises: whatever fails, the run goes to its end and returns
C14_NoRunRaises == digest # "raised"

\* C17: as long as the file is missing or corrupt, a run has loaded the empty
\* set from it, without raising
C17_UnusableFileLoadsEmpty ==
    (RunStarted /\ persisted.state # "list") =>
        /\ digest # "raised"
        /\ processed_papers = EmptyStore

\* every page request of the run failed or returned no entry
NothingFetched == \A k \in 1..Len(reqs) : reqs[k].n \in {-1, 0}

\* C15: a run whose fetch collected no entry ends, without raising, with the
\* page that says no papers were found; the only other outcome is that the
\* page could not be written to its file, and the run returned None
C15_NoEntriesStillDigest ==
    (RunEnded /\ Len(all_entries) = 0) =>
        /\ NothingFetched
        /\ digest \in {"no papers found", "not written"}

\* every request of two keyword batches failed, and the page was produced
C15_Witness ==
    /\ RunEnded
    /\ Len(reqs) = 2
    /\ \A k \in 1..Len(reqs) : reqs[k].n = -1
    /\ digest = "no papers found"

\* the length of the months of the Gregorian calendar
DaysIn(y, m) ==
    IF m = 2 /\ (y % 400 = 0 \/ (y % 4 = 0 /\ y % 100 # 0)) THEN 29
    ELSE <<31, 28, 31, 30, 31, 30, 31, 31, 30, 31, 30, 31>>[m]

\* the ways %Y-%m-%d spells a date: the year in four digits, the month and the
\* day in two digits or without the leading zero, the day also with a space
\* in its place
FieldSpellings(n) ==
    {Pad2(n)} \cup (IF n < 10 THEN {<<DigitChars[n + 1]>>} ELSE {})
DaySpellings(d) ==
    FieldSpellings(d) \cup (IF d < 10 THEN {<<" ", DigitChars[d + 1]>>} ELSE {})
Spellings(y, m, d) ==
    {Pad4(y) \o <<"-">> \o mm \o <<"-">> \o dd :
         mm \in FieldSpellings(m), dd \in DaySpellings(d)}

\* what stands before the first T of a string
DatePart(s) ==
    IF \E k \in 1..Len(s) : s[k] = "T"
    THEN SubSeq(s, 1, (CHOOSE k \in 1..Len(s) :
                           s[k] = "T" /\ \A l \in 1..(k - 1) : s[l] # "T") - 1)
    ELSE s

CalendarYears == {1900, 2000, 2023, 2024}

\* the calendar dates that the date part of a string spells
DatesSpelt(s) ==
    {dt \in UNION {{Date(y, m, d) : m \in 1..12, d \in 1..31} :
                       y \in {y \in CalendarYears :
                                 Len(s) >= 4 /\ Pad4(y) = SubSeq(s, 1, 4)}} :
         /\ dt.d <= DaysIn(dt.y, dt.m)
         /\ DatePart(s) \in Spellings(dt.y, dt.m, dt.d)}

\* C20: a string whose part before the first T spells a calendar date gives
\* that date, any other string gives None, and so does a value that is not a
\* string; an ISO timestamp is the first case
C20_ParsesDatePart ==
    out.done =>
        /\ arg.kind # "str" => out.date = NoDate
        /\ arg.kind = "str" =>
               /\ \A dt \in DatesSpelt(arg.s) : out.date = dt
               /\ DatesSpelt(arg.s) = {} => out.date = NoDate

\* the timestamp 2024-02-29T12:34:56Z has given the 29th of February 2024
C20_Witness ==
    /\ out.done
    /\ arg = Str(Pad4(2024) \o <<"-">> \o Pad2(2) \o <<"-">> \o Pad2(29)
                 \o <<"T", "1", "2", ":", "3", "4", ":", "5", "6", "Z">>)
    /\ out.date = Date(2024, 2, 29)

\* the value of a date attribute is a string that gives a date
Parses(value) == value.kind = "str" /\ parse_arxiv_date(value).given

\* the first date attribute, in the order of the checks, that gives a date or
\* makes the check raise; 0 when there is none
Decisive(entry) ==
    LET ks == {k \in 1..Len(date_fields) :
                   \/ Parses(entry[date_fields[k]])
                   \/ entry[date_fields[k]].kind = "bytes" /\ entry[date_fields[k]].s # <<>>}
    IN  IF ks = {} THEN 0 ELSE CHOOSE k \in ks : \A l \in ks : k <= l

\* C16: the date check says in range when no date attribute of the entry
\* parses and when the check raises, and whatever it says, the entry is
\* accepted or rejected by the category and keyword filters alone
C16_DateCheckNeverExcludes ==
    out.done =>
        /\ LET k == Decisive(arg.entry)
           IN  (k = 0 \/ arg.entry[date_fields[k]].kind = "bytes") => out.date_check
        /\ out.verdict = filter_chain(arg.criteria, arg.entry)
        /\ out.verdict \in {"required", "excluded", "keyword", "accepted"}

\* an entry dated outside the window failed the date check and was accepted
C16_Witness ==
    /\ out.done
    /\ ~out.date_check
    /\ out.verdict = "accepted"
    /\ arg.criteria.categories.given

\* where sub starts in s
Positions(s, sub) ==
    {i \in 1..(Len(s) - Len(sub) + 1) : SubSeq(s, i, i + Len(sub) - 1) = sub}

\* every a of s stands before every b of s
AllBefore(s, a, b) == \A i \in Positions(s, a), j \in Positions(s, b) : i < j

\* the criteria of the query that are there
HasCategories == Truthy(arg.categories)
HasKeywords == Truthy(arg.keywords)
HasAuthors == Truthy(arg.authors)
HasDates == arg.start_date.given /\ arg.end_date.given
ClauseCount ==
    (IF HasCategories THEN 1 ELSE 0) + (IF HasKeywords THEN 1 ELSE 0)
    + (IF HasAuthors THEN 1 ELSE 0) + (IF HasDates THEN 1 ELSE 0)

\* the twelve characters at position from of clause c spell the day dt and the
\* time of day hhmm
SpellsMinute(c, from, dt, hhmm) ==
    /\ int(SubSeq(c, from, from + 3)) = dt.y
    /\ int(SubSeq(c, from + 4, from + 5)) = dt.m
    /\ int(SubSeq(c, from + 6, from + 7)) = dt.d
    /\ SubSeq(c, from + 8, from + 11) = hhmm

\* C18: the query has one clause for each criterion that is there and none for
\* the others, in the order categories, keywords, authors, dates, with +AND+
\* between them; the keyword clause has a title term and an abstract term for
\* each keyword; the date clause runs from 0000 of the start date to 2359 of
\* the end date
C18_OneClausePerCriterion ==
    out.done =>
        LET q == out.query
        IN  /\ ClauseCount = 0 => q = <<"*">>
            /\ ClauseCount > 0 => Len(Split(q, AndSep)) = ClauseCount
            /\ HasCategories <=> Positions(q, CatPrefix) # {}
            /\ HasKeywords <=> Positions(q, TiPrefix) # {}
            /\ HasKeywords <=> Positions(q, AbsPrefix) # {}
            /\ HasAuthors <=> Positions(q, AuPrefix) # {}
            /\ HasDates <=> Positions(q, DatePrefix) # {}
            /\ AllBefore(q, CatPrefix, TiPrefix) /\ AllBefore(q, CatPrefix, AbsPrefix)
            /\ AllBefore(q, CatPrefix, AuPrefix) /\ AllBefore(q, CatPrefix, DatePrefix)
            /\ AllBefore(q, TiPrefix, AuPrefix) /\ AllBefore(q, AbsPrefix, AuPrefix)
            /\ AllBefore(q, TiPrefix, DatePrefix) /\ AllBefore(q, AbsPrefix, DatePrefix)
            /\ AllBefore(q, AuPrefix, DatePrefix)
            /\ HasKeywords =>
                   /\ Cardinality(Positions(q, TiPrefix)) = Len(arg.keywords.list)
                   /\ Cardinality(Positions(q, AbsPrefix)) = Len(arg.keywords.list)
                   /\ \A i \in 1..Len(arg.keywords.list) :
                          LET kw == arg.keywords.list[i]
                          IN  Positions(q, <<"(">> \o TiPrefix \o kw \o OrSep
                                               \o AbsPrefix \o kw \o <<")">>) # {}
            /\ HasDates =>
                   LET c == Split(q, AndSep)[ClauseCount]
                       from == Len(DatePrefix) + 1
                   IN  /\ SubSeq(c, 1, Len(DatePrefix)) = DatePrefix
                       /\ SpellsMinute(c, from, arg.start_date, DayStart)
                       /\ SubSeq(c, from + 12, from + 15) = ToSep
                       /\ SpellsMinute(c, from + 16, arg.end_date, DayEnd)
                       /\ SubSeq(c, from + 28, Len(c)) = <<"]">>

\* a query for two categories, two keywords, an author and the days from
\* 29 February to 2 March
C18_Witness ==
    /\ out.done
    /\ ClauseCount = 4
    /\ arg.categories.list = << <<"b">>, <<"a">> >>
    /\ arg.keywords.list = << <<"j", " ", "w">>, <<"k">> >>
    /\ arg.start_date = Date(2024, 2, 29)
    /\ arg.end_date = today
    /\ Len(Split(out.query, AndSep)) = 4

\* C19: with categories alone the query is one group in parentheses of the
\* cat: terms of the categories, in their order, with OR between them, and
\* has no title, abstract, author or date term
C19_CategoriesOnlyQuery ==
    (out.done /\ HasCategories /\ ClauseCount = 1) =>
        LET q == out.query
            terms == Split(SubSeq(q, 2, Len(q) - 1), OrSep)
        IN  /\ q[1] = "(" /\ q[Len(q)] = ")"
            /\ Cardinality(Positions(q, <<"(">>)) = 1
            /\ Cardinality(Positions(q, <<")">>)) = 1
            /\ Len(terms) = Len(arg.categories.list)
            /\ \A i \in 1..Len(terms) : terms[i] = CatPrefix \o arg.categories.list[i]
            /\ Positions(q, TiPrefix) = {} /\ Positions(q, AbsPrefix) = {}
            /\ Positions(q, AuPrefix) = {} /\ Positions(q, DatePrefix) = {}
            /\ Positions(q, AndSep) = {}

\* the query for the categories b and a, with an empty keyword list and an
\* end date without a start date
C19_Witness ==
    /\ out.done
    /\ arg.categories = Some(<< <<"b">>, <<"a">> >>)
    /\ arg.keywords = Some(<<>>)
    /\ arg.authors = None
    /\ ~arg.start_date.given /\ arg.end_date.given
    /\ Len(out.query) = Len(CatPrefix) * 2 + Len(OrSep) + 4

\* the responses and positions at which the identifier of an entry was received
Appearances(entry) ==
    UNION {{<<k, m>> : m \in {n \in 1..Len(upstream[k].first) :
                                  arxiv_id_of(upstream[k].first[n]) = arxiv_id_of(entry)}} :
               k \in {l \in 1..Len(upstream) : upstream[l].ok}}

\* the first of them, in the order of the requests
FirstAppearance(entry) ==
    CHOOSE a \in Appearances(entry) :
        \A b \in Appearances(entry) : a[1] < b[1] \/ (a[1] = b[1] /\ a[2] <= b[2])

\* the position in all_entries of the entry rendered in block j
PositionOf(j) == CHOOSE i \in 1..Len(all_entries) : arxiv_id_of(all_entries[i]) = body[j].arxiv_id

\* C21: the blocks of the digest are those of the accepted entries in the
\* order of all_entries, which is the order in which the entries were first
\* received: by keyword batch, then page, then position in the page
C21_DigestInFetchOrder ==
    /\ \A i, j \in 1..Len(all_entries) :
           i < j => LET a == FirstAppearance(all_entries[i])
                        b == FirstAppearance(all_entries[j])
                    IN  a[1] < b[1] \/ (a[1] = b[1] /\ a[2] < b[2])
    /\ \A j, k \in 1..Len(body) : j < k => PositionOf(j) < PositionOf(k)

\* two blocks of entries received in the answers to two different requests
C21_Witness ==
    /\ Len(body) >= 2
    /\ FirstAppearance(all_entries[PositionOf(1)])[1]
           < FirstAppearance(all_entries[PositionOf(2)])[1]

PriorityOrder == <<"arxiv_updated", "updated", "published", "arxiv_created">>

\* the days of the window of a run of one day and of two days on 2 March 2024
WindowDays(amount_of_days) ==
    IF amount_of_days = 1 THEN {Date(2024, 3, 1)}
    ELSE {Date(2024, 2, 29), Date(2024, 3, 1)}

\* the attributes of the entry, by priority, that are there and parse
ParsingFields == {k \in 1..Len(PriorityOrder) : Parses(arg.entry[PriorityOrder[k]])}

\* no attribute of the entry makes the date check raise
NoneRaises == \A k \in 1..Len(PriorityOrder) : arg.entry[PriorityOrder[k]].kind # "bytes"

\* C22: when some date attribute is there and parses, the date check is
\* whether the date of the first of them, by priority, lies in the window,
\* its two ends included; the attributes after it are not looked at
C22_FirstParsingDateDecides ==
    (out.done /\ NoneRaises /\ ParsingFields # {}) =>
        LET k == CHOOSE k \in ParsingFields : \A l \in ParsingFields : k <= l
            d == parse_arxiv_date(arg.entry[PriorityOrder[k]])
        IN  out.date_check <=> d \in WindowDays(arg.criteria.amount_of_days)

\* the updated attribute does not parse, the published date is the first day
\* of a window of two days, and the created date is after the window
C22_Witness ==
    /\ out.done
    /\ arg.criteria.amount_of_days = 2
    /\ arg.entry.arxiv_updated = NotAString
    /\ arg.entry.updated = Str(<<"x">>)
    /\ arg.entry.published = Str(Timestamp(minus_days(today, 2)))
    /\ arg.entry.arxiv_created = Str(Timestamp(today))
    /\ out.date_check

\* the lists of a sequence of batches, one after the other
RECURSIVE Concatenated(_)
Concatenated(batches) ==
    IF batches = <<>> THEN <<>>
    ELSE Head(batches).list \o Concatenated(Tail(batches))

\* C23: a keyword list that is not empty is split into batches of one to 15
\* keywords that, put one after the other, are the list; with no keywords,
\* or an empty list, there is one batch, which is None, and the query built
\* for it has no keyword clause
C23_BatchesPartitionKeywords ==
    out.done =>
        IF arg.given /\ arg.list # <<>>
        THEN /\ \A b \in 1..Len(out.batches) :
                    /\ out.batches[b].given
                    /\ Len(out.batches[b].list) >= 1
                    /\ Len(out.batches[b].list) <= 15
             /\ Concatenated(out.batches) = arg.list
        ELSE /\ out.batches = <<None>>
             /\ Positions(build_arxiv_query(None, out.batches[1], None, NoDate, NoDate),
                          TiPrefix) = {}

\* 31 numbered keywords have been split into batches of 15, 15 and 1
C23_Witness ==
    /\ out.done
    /\ arg = Some(NumberedKeywords("k", 31))
    /\ Len(out.batches) = 3
    /\ Len(out.batches[3].list) = 1

\* C24: a set of at most 1000 identifiers is returned as it is; of a larger
\* set exactly 500 identifiers are returned, all of them identifiers of the set
C24_PruneKeepsSubset ==
    out.done =>
        /\ Cardinality(arg.ids) + arg.others <= 1000 => out.kept = arg
        /\ Cardinality(arg.ids) + arg.others > 1000 =>
               Cardinality(out.kept.ids) + out.kept.others = 500
        /\ out.kept.ids \subseteq arg.ids
        /\ out.kept.others <= arg.others

\* a set of 1001 identifiers was trimmed, and lost one of the papers of the model
C24_Witness ==
    /\ out.done
    /\ Cardinality(arg.ids) + arg.others = 1001
    /\ Cardinality(arg.ids) = 2
    /\ Cardinality(out.kept.ids) = 1

\* the number of the day dt, counted from 1 January of the year 1
DayOrdinal(dt) ==
    365 * (dt.y - 1) + ((dt.y - 1) \div 4) - ((dt.y - 1) \div 100) + ((dt.y - 1) \div 400)
    + <<0, 31, 59, 90, 120, 151, 181, 212, 243, 273, 304, 334>>[dt.m]
    + (IF dt.m > 2 /\ DaysIn(dt.y, 2) = 29 THEN 1 ELSE 0)
    + dt.d

IsCalendarDate(dt) ==
    dt.given /\ dt.y >= 1 /\ dt.m \in 1..12 /\ dt.d >= 1 /\ dt.d <= DaysIn(dt.y, dt.m)

\* C25: the window ends the day before the current date and has amount_of_days
\* days, one day when amount_of_days is below 1; the window of the query
\* starts one day before it and ends on the same day
C25_WindowSpansDays ==
    out.done =>
        LET days == IF arg.amount_of_days < 1 THEN 1 ELSE arg.amount_of_days
        IN  /\ IsCalendarDate(out.yesterday) /\ IsCalendarDate(out.start_window)
            /\ IsCalendarDate(out.api_start)
            /\ DayOrdinal(out.yesterday) = DayOrdinal(arg.today) - 1
            /\ DayOrdinal(out.yesterday) - DayOrdinal(out.start_window) + 1 = days
            /\ DayOrdinal(out.api_start) = DayOrdinal(out.start_window) - 1
            /\ out.api_end = out.yesterday

\* three days before 2 March 2024: the window starts on 28 February and the
\* window of the query on 27 February
C25_Witness ==
    /\ out.done
    /\ arg = [today |-> Date(2024, 3, 2), amount_of_days |-> 3]
    /\ out.start_window = Date(2024, 2, 28)
    /\ out.api_start = Date(2024, 2, 27)

LoopEnded == pc = "process" /\ idx > Len(all_entries)

\* the number the summary reports as seen before (line 605)
seen_before_count == shown_papers_count - new_papers_count

\* C26: when the processing loop ends, every fetched entry is shown or
\* counted as filtered by category or by keyword, the shown ones are the new
\* ones and the ones seen before, and the number reported as seen before is
\* not above the counter of already processed entries
C26_CountsAddUp ==
    LoopEnded =>
        /\ Len(all_entries) =
               shown_papers_count + filtered_papers_count + no_keywords_count
        /\ new_papers_count =
               Cardinality({j \in DOMAIN body : body[j].badge = "[NEW]"})
        /\ seen_before_count =
               Cardinality({j \in DOMAIN body : body[j].badge = "(seen before)"})
        /\ shown_papers_count = Len(body)
        /\ seen_before_count >= 0
        /\ seen_before_count <= already_processed_count

\* a run that shows entries seen before, rejects entries by category and by
\* keyword, and rejects an entry already in the store
C26_Witness ==
    /\ LoopEnded
    /\ Len(all_entries) = 4
    /\ seen_before_count > 0
    /\ filtered_papers_count > 0
    /\ no_keywords_count > 0
    /\ seen_before_count < already_processed_count

\* the positions of the entries of the run that pass the filter chain
AcceptedPositions == {i \in DOMAIN all_entries : AcceptedAt(i)}

\* the store loaded at run start with the base identifiers of the accepted
\* entries, the base identifier being the identifier without its version
ExactUpdate ==
    [ids |-> processed_papers.ids
                 \cup {VersionStripped(arxiv_id_of(all_entries[i])) : i \in AcceptedPositions},
     others |-> processed_papers.others]

\* C27: a run that ends with a store of at most 1000 identifiers persists the
\* set it loaded united with the base identifiers of the entries it accepted:
\* nothing loaded is removed and no identifier of a rejected entry is added
C27_StoreUpdateExact ==
    [][(pc = "process" /\ pc' = "idle" /\ StoreSize(ExactUpdate) <= prune_threshold)
           => /\ ~load_raises(persisted')
              /\ load_processed_papers(persisted') = ExactUpdate]_vars

\* C28: an accepted entry whose base identifier an earlier run has saved in
\* the store is marked as seen before, and is not counted as new
C28_SeenStaysSeen ==
    pc = "process" =>
        \A j \in DOMAIN body :
            VersionStripped(body[j].arxiv_id) \in ever_persisted
                => body[j].badge = "(seen before)"

\* the requests issued so far for keyword chunk b
RequestsOfChunk(b) == {i \in DOMAIN reqs : reqs[i].batch = b}

\* no chunk has more requests than max_total_results / 200, which is at most 10
RequestsWithinCap ==
    LET d == IF criteria.amount_of_days < 1 THEN 1 ELSE criteria.amount_of_days
        most == IF d > 10 THEN 10 ELSE d
    IN  \A b \in 1..Len(reqs) :
            /\ Cardinality(RequestsOfChunk(b)) <= most
            /\ Cardinality(RequestsOfChunk(b)) * max_results_per_call
                   <= max_results_per_call * d
            /\ Cardinality(RequestsOfChunk(b)) * max_results_per_call <= api_limit

\* C29: whatever the API answers, the fetch phase comes to an end, and no
\* keyword chunk gets more than max_total_results / 200 requests, 10 at most
C29_FetchTerminates == []RequestsWithinCap /\ <>(pc # "fetch")

\* the fetch is over after ten full pages for each of two chunks
C29_Witness ==
    /\ pc # "fetch"
    /\ criteria.amount_of_days > 10
    /\ Cardinality(RequestsOfChunk(1)) = 10
    /\ Cardinality(RequestsOfChunk(2)) = 10
    /\ Len(reqs) = 20

\* the run under way, or the last one, was given an empty keyword list
EmptyKeywordList ==
    /\ criteria # None
    /\ criteria.keywords.given
    /\ criteria.keywords.list = <<>>

\* the query of request i of the run, as fetch_arxiv_batch builds it
QueryOfRequest(i) ==
    build_arxiv_query(criteria.categories, reqs[i].keywords_batch, None,
                      api_start_window(today, criteria.amount_of_days),
                      yesterday(today))

\* C30: in a run with an empty keyword list no query has a keyword clause
\* and the keyword check rejects no entry
C30_EmptyKeywordsAsAbsent ==
    EmptyKeywordList =>
        /\ \A i \in DOMAIN reqs :
               /\ reqs[i].keywords_batch = None
               /\ ~Contains(QueryOfRequest(i), TiPrefix)
               /\ ~Contains(QueryOfRequest(i), AbsPrefix)
        /\ no_keywords_count = 0
        /\ \A i \in Processed : ~fails_keywords(criteria, all_entries[i])

====
